---- MODULE Spec2Model ----
(***************************************************************************)
(* A model of the connection dispatcher of neqo-transport/src/server.rs:   *)
(* the CID registry, the waiting queue, the timer wheel, the active set,   *)
(* the Retry token module and the Server::process drive loop.              *)
(*                                                                         *)
(* One Server::process call is a sequence of steps: the entry step does    *)
(* process_input (when there is a datagram), and, when that produced no    *)
(* datagram, the loop of process_next_output runs one process_connection   *)
(* per step (pc = "output") until a connection emits or both loops are     *)
(* exhausted and next_time gives the return value (pc = "done"); the call  *)
(* then returns (pc = "idle").  The variables marked "history" record what *)
(* the current call did; they are reset when it returns.                   *)
(***************************************************************************)
EXTENDS Integers, Sequences, FiniteSets, Bags, TLC

\* ---------------------------------------------------------------- bounds
MaxConns   == 2    \* connections the server may accept
MaxCid     == 2    \* CIDs the underlying generator may mint
MaxTime    == 1    \* the latest instant given to process
MaxDelay   == 1    \* the longest Callback delay a connection asks for
MaxWaiting == 2    \* the longest waiting queue
MaxCidLen  == 3    \* the longest CID a token is generated for
MaxByte    == 3    \* the largest byte of such a CID
MaxDrains  == 2    \* active_connections calls between two process calls

\* ------------------------------------------------------------- constants
MIN_INITIAL_PACKET_SIZE == 1200
FIXED_TOKEN  == <<1, 2, 3>>
\* Versions are 32-bit values, written as their four bytes.
QUIC_VERSION  == <<0, 0, 0, 1>>
GREASE_VERSION == <<170, 186, 202, 218>>       \* 0xaaba_cada
OTHER_VERSION == <<255, 0, 0, 29>>

Conns   == 1..MaxConns
NoConn  == 0
\* A connection ID is a byte string; the generator mints <<1>>, <<2>>, ...
CidOf(k) == <<k>>
AllCids  == {CidOf(k) : k \in 0..MaxCid}
ClientScid == <<202, 254>>

None == <<>>           \* Option::None; Some(x) is <<x>>
Some(x) == <<x>>

VARIABLES
    connections,   \* Server.connections: CID -> connection (NoConn: absent)
    active,        \* Server.active
    waiting,       \* Server.waiting
    timers,        \* Server.timers: a bag of <<deadline, connection>>
    require_retry, \* Server.retry.require_retry
    conn,          \* the ServerConnectionState of every connection
    numConns,      \* how many connections were constructed
    nextCid,       \* the underlying CID generator
    minted,        \* history: the CIDs minted through each wrapper
    pc,            \* "idle", "output" (inside process_next_output), "done"
                   \* (process is about to return ret), "panic"
    now,           \* the instant of the current (or last) process call
    input,         \* the Option<Datagram> of the current (or last) call
    delivered,     \* history: the connections given this call's datagram
    ticked,        \* history: the connections ticked without input in this call
    last,          \* history: the latest connection invocation and its Output
    reply,         \* history: what process_input did with the datagram
    retried,       \* history: the DCIDs a Retry datagram was sent for
    ret,           \* the Output the current call returns (pc = "done")
    emitted,       \* history: the connections whose most recent process
                   \* invocation returned Output::Datagram
    listed,        \* the lists the active_connections calls returned since
                   \* the latest process call
    held,          \* the connections the application holds a reference to
    tok            \* the Retry token module on its own: a CID, the token
                   \* generated for it, what validate makes of that token

vars == <<connections, active, waiting, timers, require_retry, conn, numConns,
          nextCid, minted, pc, now, input, delivered, ticked, last, reply, retried, ret,
          emitted, listed, held, tok>>

\* The part of the state that process_input / process_connection work on.
Server == [connections |-> connections, active |-> active, waiting |-> waiting,
           timers |-> timers, conn |-> conn, numConns |-> numConns,
           nextCid |-> nextCid, minted |-> minted, delivered |-> delivered,
           ticked |-> ticked,
           last |-> last, emitted |-> emitted]

Install(s) ==
    /\ connections' = s.connections
    /\ active' = s.active
    /\ waiting' = s.waiting
    /\ timers' = s.timers
    /\ conn' = s.conn
    /\ numConns' = s.numConns
    /\ nextCid' = s.nextCid
    /\ minted' = s.minted
    /\ delivered' = s.delivered
    /\ ticked' = s.ticked
    /\ last' = s.last
    /\ emitted' = s.emitted

\* ------------------------------------------------------------ timer wheel
TimerAdd(t, time, c) == t (+) SetToBag({<<time, c>>})

TimerRemove(t, time, c) ==
    IF BagIn(<<time, c>>, t) THEN t (-) SetToBag({<<time, c>>}) ELSE t

\* The entries take_next(until) may return: the earliest ones, when due.
TimerDue(t, until) ==
    {e \in BagToSet(t) : e[1] <= until /\ \A f \in BagToSet(t) : e[1] <= f[1]}

TimerNextTime(t) ==
    IF BagToSet(t) = {} THEN None
    ELSE Some(CHOOSE m \in {e[1] : e \in BagToSet(t)} :
                 \A f \in BagToSet(t) : m <= f[1])

\* How many entries of the wheel refer to connection c.
TimerEntries(t, c) == {e \in BagToSet(t) : e[2] = c}
TimerCount(t, c) ==
    LET es == TimerEntries(t, c)
        RECURSIVE Sum(_)
        Sum(S) == IF S = {} THEN 0
                  ELSE LET e == CHOOSE x \in S : TRUE
                       IN CopiesIn(e, t) + Sum(S \ {e})
    IN Sum(es)

\* ------------------------------------------------------------- datagrams
PacketTypes == {"Initial", "Handshake", "ZeroRTT", "Short", "Retry", "VN"}

\* The DCIDs of long-header datagrams: one the generator never mints, and the
\* first it mints.
ClientCids == {CidOf(0), CidOf(1)}

Tokens == {<<>>, <<1>>, <<3, 2, 1>>} \cup {FIXED_TOKEN \o d : d \in ClientCids}

\* What decode_packet_hdr exposes of a datagram's first header, with the
\* datagram's addresses and length.  ok = FALSE: the header does not decode.
Datagrams ==
    LET long == [source : {"client"}, destination : {"server"}, ok : {TRUE},
                 dcid : ClientCids, scid : {Some(ClientScid)},
                 version : {Some(QUIC_VERSION), Some(OTHER_VERSION)},
                 tipe : PacketTypes \ {"Short", "Initial"}, token : {<<>>},
                 len : {MIN_INITIAL_PACKET_SIZE - 1, MIN_INITIAL_PACKET_SIZE}]
        initial == [source : {"client"}, destination : {"server"}, ok : {TRUE},
                 dcid : ClientCids, scid : {Some(ClientScid)},
                 version : {Some(QUIC_VERSION), Some(OTHER_VERSION)},
                 tipe : {"Initial"}, token : Tokens,
                 len : {MIN_INITIAL_PACKET_SIZE - 1, MIN_INITIAL_PACKET_SIZE}]
        short == [source : {"client"}, destination : {"server"}, ok : {TRUE},
                 dcid : AllCids, scid : {None}, version : {None},
                 tipe : {"Short"}, token : {<<>>},
                 len : {MIN_INITIAL_PACKET_SIZE - 1, MIN_INITIAL_PACKET_SIZE}]
        junk == [source : {"client"}, destination : {"server"}, ok : {FALSE},
                 dcid : {CidOf(0)}, scid : {None}, version : {None},
                 tipe : {"Short"}, token : {<<>>},
                 len : {MIN_INITIAL_PACKET_SIZE - 1}]
    IN long \cup initial \cup short \cup junk

\* ---------------------------------------------------------- Retry tokens
\* generate_token, putting the CID in front of the fixed bytes.
generate_token_suffixed(dcid) == dcid \o FIXED_TOKEN

generate_token(dcid) == FIXED_TOKEN \o dcid

\* validate, treating every long header as an Initial.
validate_any_type(rr, hdr) ==
    IF hdr.token = <<>>
    THEN IF rr THEN [r |-> "Validate", cid |-> <<>>]
               ELSE [r |-> "Pass", cid |-> <<>>]
    ELSE IF Len(hdr.token) < Len(FIXED_TOKEN)
         THEN [r |-> "Panic", cid |-> <<>>]
         ELSE IF SubSeq(hdr.token, 1, Len(FIXED_TOKEN)) = FIXED_TOKEN
              THEN [r |-> "Valid",
                    cid |-> SubSeq(hdr.token, Len(FIXED_TOKEN) + 1,
                                   Len(hdr.token))]
              ELSE [r |-> "Invalid", cid |-> <<>>]

\* validate, recovering the CID from one byte too early.
validate_early(rr, hdr) ==
    IF hdr.tipe = "Initial"
    THEN IF hdr.token = <<>>
         THEN IF rr THEN [r |-> "Validate", cid |-> <<>>]
                    ELSE [r |-> "Pass", cid |-> <<>>]
         ELSE IF Len(hdr.token) < Len(FIXED_TOKEN)
              THEN [r |-> "Panic", cid |-> <<>>]
              ELSE IF SubSeq(hdr.token, 1, Len(FIXED_TOKEN)) = FIXED_TOKEN
                   THEN [r |-> "Valid",
                         cid |-> SubSeq(hdr.token, Len(FIXED_TOKEN),
                                        Len(hdr.token))]
                   ELSE [r |-> "Invalid", cid |-> <<>>]
    ELSE [r |-> "Invalid", cid |-> <<>>]

\* validate, passing an empty token whatever the Retry policy.
validate_pass(rr, hdr) ==
    IF hdr.tipe = "Initial"
    THEN IF hdr.token = <<>>
         THEN [r |-> "Pass", cid |-> <<>>]
         ELSE IF Len(hdr.token) < Len(FIXED_TOKEN)
              THEN [r |-> "Panic", cid |-> <<>>]
              ELSE IF SubSeq(hdr.token, 1, Len(FIXED_TOKEN)) = FIXED_TOKEN
                   THEN [r |-> "Valid",
                         cid |-> SubSeq(hdr.token, Len(FIXED_TOKEN) + 1,
                                        Len(hdr.token))]
                   ELSE [r |-> "Invalid", cid |-> <<>>]
    ELSE [r |-> "Invalid", cid |-> <<>>]

\* token[0..FIXED_TOKEN.len()] is out of range for a token shorter than the
\* prefix: the slice index panics.
validate(rr, hdr) ==
    IF hdr.tipe = "Initial"
    THEN IF hdr.token = <<>>
         THEN IF rr THEN [r |-> "Validate", cid |-> <<>>]
                    ELSE [r |-> "Pass", cid |-> <<>>]
         ELSE IF Len(hdr.token) < Len(FIXED_TOKEN)
              THEN [r |-> "Panic", cid |-> <<>>]
              ELSE IF SubSeq(hdr.token, 1, Len(FIXED_TOKEN)) = FIXED_TOKEN
                   THEN [r |-> "Valid",
                         cid |-> SubSeq(hdr.token, Len(FIXED_TOKEN) + 1,
                                        Len(hdr.token))]
                   ELSE [r |-> "Invalid", cid |-> <<>>]
    ELSE [r |-> "Invalid", cid |-> <<>>]

\* ------------------------------------------------------- CID management
\* The underlying generator: every CID it returns is fresh and non-empty.
cid_manager_generate_cid(s) ==
    [s |-> [s EXCEPT !.nextCid = @ + 1], cid |-> CidOf(s.nextCid)]

\* generate_cid, registering only the first CID of a connection.
generate_cid_first_only(s, c) ==
    LET g == cid_manager_generate_cid(s)
    IN IF s.minted[c] = {}
       THEN [g.s EXCEPT !.connections[g.cid] = c, !.minted[c] = @ \cup {g.cid}]
       ELSE [g.s EXCEPT !.minted[c] = @ \cup {g.cid}]

\* ServerConnectionIdManager::generate_cid for the wrapper of connection c.
generate_cid(s, c) ==
    LET g == cid_manager_generate_cid(s)
    IN [g.s EXCEPT !.connections[g.cid] = c,
                   !.minted[c] = @ \cup {g.cid}]

\* connection, answering with the oldest connection for every known CID.
connection_oldest(s, cid) ==
    IF cid \in DOMAIN s.connections /\ s.connections[cid] # NoConn
    THEN Some(1) ELSE None

connection(s, cid) ==
    IF cid \in DOMAIN s.connections /\ s.connections[cid] # NoConn
    THEN Some(s.connections[cid]) ELSE None

\* ------------------------------------------------- the connection (black box)
OutDatagram == [kind |-> "Datagram", delay |-> 0]
OutCallback(d) == [kind |-> "Callback", delay |-> d]
OutNone == [kind |-> "None", delay |-> 0]
Outputs == {OutDatagram, OutNone} \cup {OutCallback(d) : d \in 0..MaxDelay}

\* What one Connection::process invocation does: its Output, whether it mints
\* a CID through its wrapper, whether it reaches Closed, whether it queues
\* events for the application.
Behaviours == [out : Outputs, mint : BOOLEAN, close : BOOLEAN, events : BOOLEAN]

NoState == [exists |-> FALSE, last_timer |-> 0, closed |-> FALSE,
            has_events |-> FALSE, odcid |-> None]

\* Connection::process(dgram, now).  Closed is terminal.
Connection_process(s, c, dgram, co) ==
    LET s1 == IF co.mint THEN generate_cid(s, c) ELSE s
    IN [s1 EXCEPT !.conn[c].closed = @ \/ co.close,
                  !.conn[c].has_events = @ \/ co.events,
                  !.delivered = IF dgram # None
                                THEN Append(@, [c |-> c, out |-> co.out]) ELSE @,
                  !.ticked = IF dgram = None THEN @ \cup {c} ELSE @,
                  !.last = [c |-> c, out |-> co.out],
                  !.emitted = IF co.out.kind = "Datagram"
                              THEN @ \cup {c} ELSE @ \ {c}]

\* ------------------------------------------------------------ dispatcher
\* remove_timer, leaving the wheel as it is.
remove_timer_keep(s, c) == s

remove_timer(s, c) ==
    [s EXCEPT !.timers = TimerRemove(@, s.conn[c].last_timer, c)]

\* set_timer, re-arming the timer also when the deadline has not changed.
set_timer_always(s, c, next) ==
    LET s1 == remove_timer(s, c)
    IN [s1 EXCEPT !.conn[c].last_timer = next,
                  !.timers = TimerAdd(@, next, c)]

\* The Callback arm of process_connection.
set_timer(s, c, next) ==
    IF next # s.conn[c].last_timer
    THEN LET s1 == remove_timer(s, c)
         IN [s1 EXCEPT !.conn[c].last_timer = next,
                       !.timers = TimerAdd(@, next, c)]
    ELSE s

\* purge, leaving the registry as it is.
purge_none(s, c) == s

\* purge, removing one CID of the connection only.
purge_one(s, c) ==
    LET ks == {k \in DOMAIN s.connections : s.connections[k] = c}
    IN IF ks = {} THEN s
       ELSE [s EXCEPT !.connections[CHOOSE k \in ks : TRUE] = NoConn]

\* The Closed arm of process_connection: connections.retain(|_, v| v != c).
purge(s, c) ==
    [s EXCEPT !.connections =
        [k \in DOMAIN @ |-> IF @[k] = c THEN NoConn ELSE @[k]]]

\* process_connection, not telling the application about events.
process_connection_inactive(s, c, dgram, n, co) ==
    LET s1 == Connection_process(s, c, dgram, co)
        s2 == CASE co.out.kind = "Datagram" ->
                     [s1 EXCEPT !.waiting = Append(@, c)]
                [] co.out.kind = "Callback" ->
                     set_timer(s1, c, n + co.out.delay)
                [] OTHER -> remove_timer(s1, c)
        s4 == IF s2.conn[c].closed THEN purge(s2, c) ELSE s2
    IN [s |-> s4,
        d |-> IF co.out.kind = "Datagram"
              THEN Some([origin |-> "conn", c |-> c]) ELSE None]

\* process_connection, not enqueueing the connection that emitted.
process_connection_unqueued(s, c, dgram, n, co) ==
    LET s1 == Connection_process(s, c, dgram, co)
        s2 == CASE co.out.kind = "Datagram" -> s1
                [] co.out.kind = "Callback" ->
                     set_timer(s1, c, n + co.out.delay)
                [] OTHER -> remove_timer(s1, c)
        s3 == IF s2.conn[c].has_events
              THEN [s2 EXCEPT !.active = @ \cup {c}] ELSE s2
        s4 == IF s3.conn[c].closed THEN purge(s3, c) ELSE s3
    IN [s |-> s4,
        d |-> IF co.out.kind = "Datagram"
              THEN Some([origin |-> "conn", c |-> c]) ELSE None]

process_connection(s, c, dgram, n, co) ==
    LET s1 == Connection_process(s, c, dgram, co)
        s2 == CASE co.out.kind = "Datagram" ->
                     [s1 EXCEPT !.waiting = Append(@, c)]
                [] co.out.kind = "Callback" ->
                     set_timer(s1, c, n + co.out.delay)
                [] OTHER -> remove_timer(s1, c)
        s3 == IF s2.conn[c].has_events
              THEN [s2 EXCEPT !.active = @ \cup {c}] ELSE s2
        s4 == IF s3.conn[c].closed THEN purge(s3, c) ELSE s3
    IN [s |-> s4,
        d |-> IF co.out.kind = "Datagram"
              THEN Some([origin |-> "conn", c |-> c]) ELSE None]

\* create_vn, echoing the client's CIDs in place.
create_vn_unswapped(hdr, received) ==
    [origin |-> "vn",
     source |-> received.destination, destination |-> received.source,
     versions |-> <<QUIC_VERSION, GREASE_VERSION>>,
     dcid |-> hdr.dcid, scid |-> hdr.scid]

create_vn(hdr, received) ==
    [origin |-> "vn",
     source |-> received.destination, destination |-> received.source,
     versions |-> <<QUIC_VERSION, GREASE_VERSION>>,
     dcid |-> hdr.scid[1], scid |-> Some(hdr.dcid)]

accept_connection(s, odcid, dgram, n, co, ok) ==
    IF ok
    THEN LET c == s.numConns + 1
             s1 == [s EXCEPT !.numConns = c,
                             !.conn[c] = [exists |-> TRUE, last_timer |-> n,
                                          closed |-> FALSE, has_events |-> FALSE,
                                          odcid |-> odcid]]
             r == process_connection(s1, c, Some(dgram), n, co)
         IN [s |-> r.s, d |-> r.d, reply |-> "accept"]
    ELSE [s |-> s, d |-> None, reply |-> "fail"]

\* handle_initial, installing the Retry's source CID in the registry.
handle_initial_registering(s, rr, hdr, dgram, n, co, ok) ==
    LET v == validate(rr, hdr)
    IN CASE v.r = "Invalid" -> [s |-> s, d |-> None, reply |-> "invalid"]
         [] v.r = "Pass" -> accept_connection(s, None, dgram, n, co, ok)
         [] v.r = "Valid" -> accept_connection(s, Some(v.cid), dgram, n, co, ok)
         [] v.r = "Validate" ->
                LET token == generate_token(hdr.dcid)
                    g == cid_manager_generate_cid(s)
                IN [s |-> [g.s EXCEPT !.connections[g.cid] = 1],
                    d |-> Some([origin |-> "retry",
                                source |-> dgram.destination,
                                destination |-> dgram.source,
                                odcid |-> hdr.dcid, token |-> token,
                                version |-> Some(QUIC_VERSION),
                                dcid |-> hdr.scid[1], scid |-> Some(g.cid)]),
                    reply |-> "retry"]
         [] OTHER -> [s |-> s, d |-> None, reply |-> "panic"]

handle_initial(s, rr, hdr, dgram, n, co, ok) ==
    LET v == validate(rr, hdr)
    IN CASE v.r = "Invalid" -> [s |-> s, d |-> None, reply |-> "invalid"]
         [] v.r = "Pass" -> accept_connection(s, None, dgram, n, co, ok)
         [] v.r = "Valid" -> accept_connection(s, Some(v.cid), dgram, n, co, ok)
         [] v.r = "Validate" ->
                LET token == generate_token(hdr.dcid)
                    g == cid_manager_generate_cid(s)
                IN [s |-> g.s,
                    d |-> Some([origin |-> "retry",
                                source |-> dgram.destination,
                                destination |-> dgram.source,
                                odcid |-> hdr.dcid, token |-> token,
                                version |-> Some(QUIC_VERSION),
                                dcid |-> hdr.scid[1], scid |-> Some(g.cid)]),
                    reply |-> "retry"]
         [] OTHER -> [s |-> s, d |-> None, reply |-> "panic"]

\* process_input, checking the version before the size.
process_input_version_first(s, rr, dgram, n, co, ok) ==
    IF ~dgram.ok
    THEN [s |-> s, d |-> None, reply |-> "discard"]
    ELSE IF connection(s, dgram.dcid) # None
    THEN LET r == process_connection(s, connection(s, dgram.dcid)[1],
                                     Some(dgram), n, co)
         IN [s |-> r.s, d |-> r.d, reply |-> "routed"]
    ELSE IF dgram.tipe = "Short"
    THEN [s |-> s, d |-> None, reply |-> "short"]
    ELSE IF dgram.version # Some(QUIC_VERSION)
    THEN [s |-> s, d |-> Some(create_vn(dgram, dgram)), reply |-> "vn"]
    ELSE IF dgram.len < MIN_INITIAL_PACKET_SIZE
    THEN [s |-> s, d |-> None, reply |-> "bogus"]
    ELSE handle_initial(s, rr, dgram, dgram, n, co, ok)

\* co is what the connection that gets the datagram (if any) does with it; ok
\* is whether Connection::new_server succeeds (if it is called).
process_input(s, rr, dgram, n, co, ok) ==
    IF ~dgram.ok
    THEN [s |-> s, d |-> None, reply |-> "discard"]
    ELSE IF connection(s, dgram.dcid) # None
    THEN LET r == process_connection(s, connection(s, dgram.dcid)[1],
                                     Some(dgram), n, co)
         IN [s |-> r.s, d |-> r.d, reply |-> "routed"]
    ELSE IF dgram.tipe = "Short"
    THEN [s |-> s, d |-> None, reply |-> "short"]
    ELSE IF dgram.len < MIN_INITIAL_PACKET_SIZE
    THEN [s |-> s, d |-> None, reply |-> "bogus"]
    ELSE IF dgram.version # Some(QUIC_VERSION)
    THEN [s |-> s, d |-> Some(create_vn(dgram, dgram)), reply |-> "vn"]
    ELSE handle_initial(s, rr, dgram, dgram, n, co, ok)

\* next_time, giving the deadline itself instead of the time left until it.
next_time_deadline(s, n) ==
    IF s.waiting = <<>>
    THEN IF TimerNextTime(s.timers) = None THEN None
         ELSE Some(TimerNextTime(s.timers)[1])
    ELSE Some(0)

next_time(s, n) ==
    IF s.waiting = <<>>
    THEN IF TimerNextTime(s.timers) = None THEN None
         ELSE Some(TimerNextTime(s.timers)[1] - n)
    ELSE Some(0)

\* ---------------------------------------------------------------- outputs
RetDatagram(d) == [kind |-> "Datagram", d |-> Some(d), delay |-> 0]
RetCallback(delay) == [kind |-> "Callback", d |-> None, delay |-> delay]
RetNone == [kind |-> "None", d |-> None, delay |-> 0]
RetPending == [kind |-> "Pending", d |-> None, delay |-> 0]

\* ------------------------------------------------------------------- Init
\* The CIDs the token module is tried on, the empty one included.
TokenCids == UNION {[1..n -> 1..MaxByte] : n \in 0..MaxCidLen}

NoTok == [stage |-> "none", cid |-> <<>>, rr |-> FALSE, token |-> <<>>,
          r |-> "none", out |-> <<>>]

\* Server::new
InitServer ==
    /\ connections = [k \in AllCids |-> NoConn]
    /\ active = {}
    /\ waiting = <<>>
    /\ timers = EmptyBag
    /\ require_retry = FALSE
    /\ conn = [c \in Conns |-> NoState]
    /\ numConns = 0
    /\ nextCid = 1
    /\ minted = [c \in Conns |-> {}]
    /\ pc = "idle"
    /\ now = 0
    /\ input = None
    /\ delivered = <<>>
    /\ ticked = {}
    /\ last = [c |-> NoConn, out |-> [kind |-> "None", delay |-> 0]]
    /\ reply = "none"
    /\ retried = {}
    /\ ret = RetPending
    /\ emitted = {}
    /\ listed = <<>>
    /\ held = {}

Init == InitServer /\ tok = NoTok

\* A RetryToken with either policy and a CID to make a token for.
InitToken ==
    /\ InitServer
    /\ tok \in {[NoTok EXCEPT !.stage = "input", !.cid = c, !.rr = b] :
                  c \in TokenCids, b \in BOOLEAN}

\* ---------------------------------------------------------------- actions
\* What the model's bounds allow a connection to do.
Allowed(s, co) ==
    /\ co.mint => s.nextCid <= MaxCid
    /\ co.out.kind = "Datagram" => Len(s.waiting) < MaxWaiting

Quiet == [out |-> OutNone, mint |-> FALSE, close |-> FALSE, events |-> FALSE]

NoCall == [c |-> NoConn, out |-> OutNone]

\* Continue, going on to the next connection whatever the connection emitted.
Continue_discarding(r) ==
    /\ Install(r.s)
    /\ reply' = r.reply
    /\ retried' = IF r.reply = "retry" THEN retried \cup {r.d[1].odcid} ELSE retried
    /\ pc' = "output" /\ ret' = RetPending
    /\ listed' = <<>>
    /\ UNCHANGED <<held, tok>>

\* The tail of Server::process once `out` (the Option<Datagram> so far) is
\* known: return the datagram, or go on to process_next_output.
Continue(r) ==
    /\ Install(r.s)
    /\ reply' = r.reply
    /\ retried' = IF r.reply = "retry" THEN retried \cup {r.d[1].odcid} ELSE retried
    /\ IF r.d # None
       THEN pc' = "done" /\ ret' = RetDatagram(r.d[1])
       ELSE pc' = "output" /\ ret' = RetPending
    /\ listed' = <<>>
    /\ UNCHANGED <<held, tok>>

\* Server::process(dgram, n) is called; time does not go backwards.
Enter(dgram, n) ==
    /\ pc = "idle"
    /\ n \in now..MaxTime
    /\ now' = n
    /\ input' = dgram
    /\ UNCHANGED require_retry

\* Where process_input takes the datagram; this does not depend on what the
\* connection does with it ("fail" with ok = FALSE is "accept" with ok = TRUE).
Route(dgram) ==
    process_input(Server, require_retry, dgram, now, Quiet, FALSE).reply

\* process(None, now)
ProcessNoInput ==
    /\ pc = "idle"
    /\ \E n \in now..MaxTime :
          /\ Enter(None, n)
          /\ Continue([s |-> Server, d |-> None, reply |-> "none"])

\* process(Some(dgram), now), the datagram reaching no connection: it is
\* dropped or answered with a Version-Negotiation or Retry datagram.
ProcessUnrouted(D) ==
    /\ pc = "idle"
    /\ \E dgram \in D :
          /\ Route(dgram) \in {"discard", "short", "bogus", "invalid", "fail",
                               "vn", "retry"}
          /\ Route(dgram) = "retry" => nextCid <= MaxCid
          /\ \E n \in now..MaxTime :
                /\ Enter(Some(dgram), n)
                /\ Continue(process_input(Server, require_retry, dgram, n,
                                          Quiet, FALSE))

\* process(Some(dgram), now), the datagram routed to its connection.
ProcessRouted(D, B) ==
    /\ pc = "idle"
    /\ \E dgram \in D :
          /\ Route(dgram) = "routed"
          /\ \E n \in now..MaxTime, co \in B :
                /\ Enter(Some(dgram), n)
                /\ Allowed(Server, co)
                /\ Continue(process_input(Server, require_retry, dgram, n,
                                          co, FALSE))

\* process(Some(dgram), now), the datagram accepted as a new connection.
ProcessAccept(D, B) ==
    /\ pc = "idle"
    /\ numConns < MaxConns
    /\ \E dgram \in D :
          /\ Route(dgram) = "fail"
          /\ \E n \in now..MaxTime, co \in B :
                /\ Enter(Some(dgram), n)
                /\ Allowed(Server, co)
                /\ Continue(process_input(Server, require_retry, dgram, n,
                                          co, TRUE))

\* process(Some(dgram), now) panicking inside RetryToken::validate.
ProcessPanic(D) ==
    /\ pc = "idle"
    /\ \E dgram \in D :
          /\ Route(dgram) = "panic"
          /\ \E n \in now..MaxTime : Enter(Some(dgram), n)
    /\ pc' = "panic"
    /\ reply' = "panic"
    /\ ret' = RetPending
    /\ listed' = <<>>
    /\ UNCHANGED <<connections, active, waiting, timers, conn, numConns,
                   nextCid, minted, delivered, ticked, last, retried,
                   emitted, held, tok>>

\* TickWaiting, taking the connection at the back of the queue.
TickWaiting_back(B) ==
    /\ pc = "output"
    /\ waiting # <<>>
    /\ \E co \in B :
          LET c == waiting[Len(waiting)]
              s == [Server EXCEPT !.waiting = SubSeq(@, 1, Len(@) - 1)]
              r == process_connection(s, c, None, now, co)
          IN /\ Allowed(s, co)
             /\ Continue([s |-> r.s, d |-> r.d, reply |-> reply])
    /\ UNCHANGED <<require_retry, now, input>>

\* TickWaiting, dropping the reference to a Closed connection unprocessed.
TickWaiting_skipping(B) ==
    /\ pc = "output"
    /\ waiting # <<>>
    /\ \E co \in B :
          LET c == Head(waiting)
              s == [Server EXCEPT !.waiting = Tail(@)]
              r == process_connection(s, c, None, now, co)
          IN IF conn[c].closed
             THEN Continue([s |-> s, d |-> None, reply |-> reply])
             ELSE /\ Allowed(s, co)
                  /\ Continue([s |-> r.s, d |-> r.d, reply |-> reply])
    /\ UNCHANGED <<require_retry, now, input>>

\* process_next_output, first loop: one connection of the waiting queue.
TickWaiting(B) ==
    /\ pc = "output"
    /\ waiting # <<>>
    /\ \E co \in B :
          LET c == Head(waiting)
              s == [Server EXCEPT !.waiting = Tail(@)]
              r == process_connection(s, c, None, now, co)
          IN /\ Allowed(s, co)
             /\ Continue([s |-> r.s, d |-> r.d, reply |-> reply])
    /\ UNCHANGED <<require_retry, now, input>>

\* process_next_output, second loop: one connection whose timer is due.  The
\* waiting queue is empty here: the first loop emptied it, and a connection
\* is pushed onto it only when it emits, which ends the call.
TickTimer(B) ==
    /\ pc = "output"
    /\ waiting = <<>>
    /\ \E e \in TimerDue(timers, now), co \in B :
          LET s == [Server EXCEPT !.timers = @ (-) SetToBag({e})]
              r == process_connection(s, e[2], None, now, co)
          IN /\ Allowed(s, co)
             /\ Continue([s |-> r.s, d |-> r.d, reply |-> reply])
    /\ UNCHANGED <<require_retry, now, input>>

\* Finish, not waiting for the waiting queue to be drained.
Finish_undrained ==
    /\ pc = "output"
    /\ pc' = "done"
    /\ ret' = IF next_time(Server, now) = None THEN RetNone
              ELSE RetCallback(next_time(Server, now)[1])
    /\ UNCHANGED <<connections, active, waiting, timers, require_retry, conn,
                   numConns, nextCid, minted, now, input, delivered, ticked,
                   last, reply, retried, emitted, listed, held, tok>>

\* Both loops are done without a datagram: process returns next_time.
Finish ==
    /\ pc = "output"
    /\ waiting = <<>>
    /\ TimerDue(timers, now) = {}
    /\ pc' = "done"
    /\ ret' = IF next_time(Server, now) = None THEN RetNone
              ELSE RetCallback(next_time(Server, now)[1])
    /\ UNCHANGED <<connections, active, waiting, timers, require_retry, conn,
                   numConns, nextCid, minted, now, input, delivered, ticked,
                   last, reply, retried, emitted, listed, held, tok>>

\* Server::process returns: the caller takes the Output, the datagram is gone.
Return ==
    /\ pc = "done"
    /\ pc' = "idle"
    /\ input' = None
    /\ delivered' = <<>>
    /\ ticked' = {}
    /\ last' = NoCall
    /\ reply' = "none"
    /\ ret' = RetPending
    /\ UNCHANGED <<connections, active, waiting, timers, require_retry, conn,
                   numConns, nextCid, minted, now, retried, emitted, listed,
                   held, tok>>

set_retry_required(b) ==
    /\ pc = "idle"
    /\ require_retry' = b
    /\ UNCHANGED <<connections, active, waiting, timers, conn, numConns,
                   nextCid, minted, pc, now, input, delivered, ticked, last,
                   reply, retried, ret, emitted, listed, held, tok>>

\* active_connections, handing out the set without emptying it.
active_connections_keeping ==
    /\ pc = "idle"
    /\ Len(listed) < MaxDrains
    /\ listed' = Append(listed, active)
    /\ held' = held \cup active
    /\ active' = active
    /\ UNCHANGED <<connections, waiting, timers, require_retry, conn, numConns,
                   nextCid, minted, pc, now, input, delivered, ticked, last,
                   reply, retried, ret, emitted, tok>>

\* mem::replace(&mut self.active, Default::default()): the set is moved out
\* and returned; the application keeps the references.
active_connections ==
    /\ pc = "idle"
    /\ Len(listed) < MaxDrains
    /\ listed' = Append(listed, active)
    /\ held' = held \cup active
    /\ active' = {}
    /\ UNCHANGED <<connections, waiting, timers, require_retry, conn, numConns,
                   nextCid, minted, pc, now, input, delivered, ticked, last,
                   reply, retried, ret, emitted, tok>>

\* The application reads the events of a connection it holds a reference to.
ReadEvents(c) ==
    /\ pc = "idle"
    /\ c \in held
    /\ conn[c].exists /\ conn[c].has_events
    /\ conn' = [conn EXCEPT ![c].has_events = FALSE]
    /\ UNCHANGED <<connections, active, waiting, timers, require_retry, numConns,
                   nextCid, minted, pc, now, input, delivered, ticked, last,
                   reply, retried, ret, emitted, listed, held, tok>>

\* RetryToken::generate_token applied to the CID at hand.
GenerateToken ==
    /\ tok.stage = "input"
    /\ tok' = [tok EXCEPT !.stage = "generated",
                          !.token = generate_token(tok.cid)]
    /\ UNCHANGED <<connections, active, waiting, timers, require_retry, conn,
                   numConns, nextCid, minted, pc, now, input, delivered, ticked,
                   last, reply, retried, ret, emitted, listed, held>>

\* RetryToken::validate applied to an Initial header carrying that token.
ValidateToken ==
    /\ tok.stage = "generated"
    /\ LET v == validate(tok.rr, [tipe |-> "Initial", token |-> tok.token])
       IN tok' = [tok EXCEPT !.stage = "validated", !.r = v.r, !.out = v.cid]
    /\ UNCHANGED <<connections, active, waiting, timers, require_retry, conn,
                   numConns, nextCid, minted, pc, now, input, delivered, ticked,
                   last, reply, retried, ret, emitted, listed, held>>

\* The steps of Server::process given datagrams of D, the connections
\* behaving as B.
Dispatch(D, B) ==
    \/ ProcessNoInput
    \/ ProcessUnrouted(D)
    \/ ProcessRouted(D, B)
    \/ ProcessAccept(D, B)
    \/ TickWaiting(B)
    \/ TickTimer(B)
    \/ Finish
    \/ Return

Next ==
    \/ Dispatch(Datagrams, Behaviours)
    \/ ProcessPanic(Datagrams)
    \/ \E b \in BOOLEAN : set_retry_required(b)
    \/ active_connections
    \/ \E c \in Conns : ReadEvents(c)
    \/ GenerateToken
    \/ ValidateToken

Spec == Init /\ [][Next]_vars

\* ------------------------------------------------ the explored restrictions
\* Scheduling: the datagrams that reach connections (one Initial that is
\* accepted, Short-header datagrams for every CID), connections doing anything
\* but queueing events, no Retry.
SchedDatagrams ==
    {d \in Datagrams :
        /\ d.ok /\ d.len = MIN_INITIAL_PACKET_SIZE
        /\ \/ d.tipe = "Short"
           \/ /\ d.tipe = "Initial" /\ d.token = <<>> /\ d.dcid = CidOf(0)
              /\ d.version = Some(QUIC_VERSION)}

SchedBehaviours == {b \in Behaviours : ~b.events}

SpecSched == Init /\ [][Dispatch(SchedDatagrams, SchedBehaviours)]_vars

\* Classification of input: every datagram, under both Retry policies, the
\* connections each doing one of two things.
InputBehaviours ==
    {[out |-> OutCallback(1), mint |-> TRUE, close |-> FALSE, events |-> TRUE],
     [out |-> OutDatagram, mint |-> FALSE, close |-> FALSE, events |-> FALSE]}

NextInput ==
    \/ Dispatch(Datagrams, InputBehaviours)
    \/ ProcessPanic(Datagrams)
    \/ \E b \in BOOLEAN : set_retry_required(b)

SpecInput == Init /\ [][NextInput]_vars

\* Termination: connections that stay open and answer anything, Callback(0)
\* included, every time they are ticked.
TermBehaviours ==
    {b \in Behaviours :
        /\ ~b.events /\ ~b.close
        /\ b.mint => b.out = OutCallback(0)}

\* Server::process is synchronous: once called it runs its loops to the end.
RunToCompletion ==
    \/ TickWaiting(TermBehaviours)
    \/ TickTimer(TermBehaviours)
    \/ Finish

SpecTerm ==
    /\ Init /\ [][Dispatch(SchedDatagrams, TermBehaviours)]_vars
    /\ WF_vars(RunToCompletion)

\* The active set: every datagram that reaches a connection, connections
\* that stay open and may queue events, the application draining the set and
\* reading events.
ActiveBehaviours ==
    {b \in Behaviours :
        /\ ~b.close
        /\ b.out # OutCallback(0)
        /\ b.mint => (b.out = OutCallback(1) /\ b.events)}

NextActive ==
    \/ Dispatch(SchedDatagrams, ActiveBehaviours)
    \/ active_connections
    \/ \E c \in Conns : ReadEvents(c)

SpecActive == Init /\ [][NextActive]_vars

\* Closing: connections that mint CIDs and close, and afterwards datagrams of
\* every header form and size for the CIDs they owned.
ClosedDatagrams ==
    {d \in Datagrams :
        /\ d.ok
        /\ \/ d.tipe = "Short"
           \/ d.tipe = "Initial" /\ d.token = <<>>}

ClosedBehaviours ==
    {b \in Behaviours : ~b.events /\ b.out # OutCallback(0)}

NextClosed ==
    \/ Dispatch(ClosedDatagrams, ClosedBehaviours)
    \/ \E b \in BOOLEAN : set_retry_required(b)

SpecClosed == Init /\ [][NextClosed]_vars

\* The Retry token module on its own.
NextToken == GenerateToken \/ ValidateToken

SpecToken == InitToken /\ [][NextToken]_vars

\* ------------------------------------------------------------- properties
\* A step that enters Server::process with a datagram whose header decodes.
EntryWith ==
    /\ pc = "idle" /\ pc' # "idle"
    /\ input' # None
    /\ input'[1].ok

\* The connection the registry holds for the DCID of the entering datagram.
Hit == connections[input'[1].dcid]

\* C1: every connection has at most one entry in the timer wheel, and the
\* deadline of that entry is the connection's last_timer.
TimerUniqueness ==
    \A c \in Conns :
        /\ TimerCount(timers, c) <= 1
        /\ \A e \in TimerEntries(timers, c) : e[1] = conn[c].last_timer

\* A connection taken out of the wheel by take_next answered Callback and is
\* in the wheel again, once, at the new deadline.
TimerRearmed ==
    \E c \in Conns :
        /\ c \in ticked /\ last.c = c /\ last.out.kind = "Callback"
        /\ TimerCount(timers, c) = 1
        /\ conn[c].last_timer = now + last.out.delay

\* C2: when a connection's process has returned Callback(D) at time now, the
\* wheel holds exactly one entry for it, with deadline now + D.
CallbackArmsTimer ==
    (last.c # NoConn /\ last.out.kind = "Callback") =>
        /\ TimerCount(timers, last.c) = 1
        /\ \A e \in TimerEntries(timers, last.c) : e[1] = now + last.out.delay

\* C3: no key of the registry maps to a connection that is Closed.
ClosedPurged ==
    \A k \in AllCids :
        connections[k] # NoConn => ~conn[connections[k]].closed

\* A Closed connection that minted two CIDs is ticked again after its purge.
ClosedTickedAgain ==
    \E c \in Conns :
        /\ conn[c].closed /\ Cardinality(minted[c]) >= 2
        /\ c \in ticked /\ pc = "done"

\* C4 as stated: a call whose datagram was routed to its owner invokes no
\* other connection.
RoutedInvokesOwnerOnly ==
    (pc = "done" /\ reply = "routed") =>
        /\ Len(delivered) = 1
        /\ ticked \subseteq {delivered[1].c}

\* C4 as amended: the datagram of a call goes to the connection the registry
\* holds for its DCID, once, and to no other connection; when that connection
\* emits, the call returns its datagram and invokes no other connection;
\* connections are ticked without input only when it did not emit.
DatagramToOwnerOnly ==
    [][/\ (EntryWith /\ pc' # "panic" /\ Hit # NoConn) =>
              /\ Len(delivered') = 1
              /\ delivered'[1].c = Hit
              /\ ticked' = {}
              /\ delivered'[1].out.kind = "Datagram" =>
                     /\ pc' = "done"
                     /\ ret' = RetDatagram([origin |-> "conn", c |-> Hit])
       /\ pc # "idle" =>
              /\ delivered' \in {delivered, <<>>}
              /\ (ticked' # ticked /\ ticked' # {}) =>
                     \A i \in 1..Len(delivered) :
                         delivered[i].out.kind # "Datagram"
      ]_vars

\* The owner of the datagram answered without emitting, and another
\* connection was ticked in the same call.
OtherTickedAfterRouted ==
    /\ pc = "done" /\ reply = "routed"
    /\ Len(delivered) = 1
    /\ ticked \ {delivered[1].c} # {}

\* C5: the registry maps every CID minted through the wrapper of a connection
\* that is not Closed to that connection, and a datagram with such a DCID is
\* given to that connection, creating no connection and no stateless reply.
MintedCidsRoute ==
    [][/\ \A c \in Conns :
              (conn'[c].exists /\ ~conn'[c].closed) =>
                  \A k \in minted'[c] : connections'[k] = c
       /\ \A c \in Conns :
              (EntryWith /\ conn[c].exists /\ ~conn[c].closed
                         /\ input'[1].dcid \in minted[c]) =>
                  /\ Len(delivered') = 1
                  /\ delivered'[1].c = c
                  /\ numConns' = numConns
                  /\ reply' = "routed"
                  /\ ret'.kind = "Datagram" => ret'.d[1].origin = "conn"
      ]_vars

\* A datagram for the second CID of a connection is given to it.
SecondCidRouted ==
    \E c \in Conns :
        /\ minted[c] = {CidOf(1), CidOf(2)}
        /\ input # None /\ input[1].dcid = CidOf(2)
        /\ Len(delivered) = 1 /\ delivered[1].c = c

\* An entering datagram whose DCID the registry does not hold.
EntryUnknown == EntryWith /\ Hit = NoConn

\* C6: a datagram shorter than 1200 bytes whose DCID is not in the registry
\* creates no connection and gets no reply, whatever its type, version and
\* token: process_input yields nothing and leaves the server as it was.
SmallUnknownDropped ==
    [][(EntryUnknown /\ input'[1].len < MIN_INITIAL_PACKET_SIZE) =>
           /\ pc' = "output"
           /\ ret'.kind # "Datagram"
           /\ delivered' = <<>>
           /\ UNCHANGED <<connections, conn, numConns, nextCid, waiting,
                          timers, active, retried>>
      ]_vars

\* An undersized Initial of another version was dropped by the size check,
\* not answered with Version Negotiation.
SmallOtherVersionDropped ==
    /\ pc = "output" /\ input # None /\ reply = "bogus"
    /\ input[1].tipe = "Initial"
    /\ input[1].version # Some(QUIC_VERSION)
    /\ input[1].len < MIN_INITIAL_PACKET_SIZE

\* An entering Initial that the size and version checks let through.
EntryInitial ==
    /\ EntryUnknown
    /\ input'[1].tipe = "Initial"
    /\ input'[1].len >= MIN_INITIAL_PACKET_SIZE
    /\ input'[1].version = Some(QUIC_VERSION)

\* C7: with require_retry, a full-size Initial of the server's version with an
\* empty token and an unknown DCID D is answered with a Retry whose token is
\* the prefix followed by D; an Initial carrying the token of an earlier Retry
\* for D is accepted as a new connection (when Connection::new_server
\* succeeds), which is told that its original destination CID is D.
RetryRoundTrip ==
    [][/\ (EntryInitial /\ require_retry /\ input'[1].token = <<>>) =>
              /\ pc' = "done"
              /\ ret'.kind = "Datagram"
              /\ ret'.d[1].origin = "retry"
              /\ ret'.d[1].token = FIXED_TOKEN \o input'[1].dcid
              /\ ret'.d[1].odcid = input'[1].dcid
              /\ input'[1].dcid \in retried'
       /\ \A D \in retried :
              (EntryInitial /\ input'[1].token = FIXED_TOKEN \o D) =>
                  \/ reply' = "fail" /\ delivered' = <<>> /\ numConns' = numConns
                  \/ /\ numConns' = numConns + 1
                     /\ Len(delivered') = 1
                     /\ delivered'[1].c = numConns'
                     /\ conn'[numConns'].exists
                     /\ conn'[numConns'].odcid = Some(D)
      ]_vars

\* A connection was accepted from the token of an earlier Retry.
AcceptedAfterRetry ==
    \E D \in retried :
        /\ require_retry /\ reply = "accept" /\ input # None
        /\ input[1].token = FIXED_TOKEN \o D
        /\ Len(delivered) = 1
        /\ conn[delivered[1].c].odcid = Some(D)

\* C8: while require_retry is true, an Initial with an empty token creates no
\* connection (a full-size one of the server's version is answered with a
\* Retry), and a connection that is created has been given the original
\* destination CID recovered from its token.
RetryRequiredEnforced ==
    [][/\ (EntryUnknown /\ require_retry /\ input'[1].tipe = "Initial"
                        /\ input'[1].token = <<>>) =>
              /\ delivered' = <<>>
              /\ numConns' = numConns /\ conn' = conn
              /\ EntryInitial => (ret'.kind = "Datagram"
                                  /\ ret'.d[1].origin = "retry")
       /\ (numConns' # numConns /\ require_retry) =>
              /\ EntryInitial
              /\ numConns' = numConns + 1
              /\ Len(input'[1].token) >= Len(FIXED_TOKEN)
              /\ SubSeq(input'[1].token, 1, Len(FIXED_TOKEN)) = FIXED_TOKEN
              /\ conn'[numConns'].odcid =
                     Some(SubSeq(input'[1].token, Len(FIXED_TOKEN) + 1,
                                 Len(input'[1].token)))
      ]_vars

\* Under require_retry an Initial with an empty token got a Retry and created
\* nothing, an earlier connection having been created from a token.
RetryInsteadOfAccept ==
    /\ require_retry /\ reply = "retry" /\ pc = "done"
    /\ input[1].token = <<>>
    /\ numConns = 1 /\ conn[1].odcid # None

\* C9: a full-size long-header datagram of another version with an unknown
\* DCID is answered with a Version-Negotiation datagram: addresses swapped,
\* DCID the client's SCID, SCID the client's DCID, versions the server's and
\* 0xAABACADA.
VersionNegotiation ==
    [][(EntryUnknown /\ input'[1].tipe # "Short"
                     /\ input'[1].len >= MIN_INITIAL_PACKET_SIZE
                     /\ input'[1].version # Some(QUIC_VERSION)) =>
           /\ pc' = "done"
           /\ ret'.kind = "Datagram"
           /\ ret'.d[1].origin = "vn"
           /\ ret'.d[1].source = input'[1].destination
           /\ ret'.d[1].destination = input'[1].source
           /\ Some(ret'.d[1].dcid) = input'[1].scid
           /\ ret'.d[1].scid = Some(input'[1].dcid)
           /\ ret'.d[1].versions = <<QUIC_VERSION, <<170, 186, 202, 218>>>>
      ]_vars

\* A Handshake datagram of another version was answered with Version
\* Negotiation.
HandshakeAnsweredVN ==
    /\ pc = "done" /\ ret.kind = "Datagram" /\ ret.d[1].origin = "vn"
    /\ input[1].tipe = "Handshake"
    /\ ret.d[1].dcid = ClientScid /\ ret.d[1].scid = Some(input[1].dcid)

\* C10: a call that answers with a Retry or Version-Negotiation datagram
\* leaves the registry, the waiting queue, the timer wheel and the active set
\* as they were, and creates no connection state.
StatelessReplies ==
    [][(pc = "idle" /\ pc' = "done" /\ ret'.kind = "Datagram"
                    /\ ret'.d[1].origin \in {"retry", "vn"}) =>
           UNCHANGED <<connections, waiting, timers, active, conn, numConns,
                       minted>>
      ]_vars

\* A Retry was sent by a server that has a connection, a waiting queue, timers
\* and active connections.
RetryFromBusyServer ==
    /\ pc = "done" /\ ret.kind = "Datagram" /\ ret.d[1].origin = "retry"
    /\ numConns >= 1 /\ waiting # <<>> /\ timers # EmptyBag /\ active # {}
    /\ \E k \in AllCids : connections[k] # NoConn

\* C11: within one call no connection is invoked after one has emitted: while
\* the call goes on no invocation of it has returned a datagram, a call whose
\* latest invocation returned a datagram returns exactly that connection's
\* datagram, a connection's datagram that is returned is the one of the latest
\* invocation, and once the return value is fixed nothing is invoked.
OneEmission ==
    [][/\ pc' = "output" =>
              /\ last'.out.kind # "Datagram"
              /\ \A i \in 1..Len(delivered') :
                     delivered'[i].out.kind # "Datagram"
       /\ (pc' = "done" /\ last'.out.kind = "Datagram") =>
              ret' = RetDatagram([origin |-> "conn", c |-> last'.c])
       /\ (pc' = "done" /\ ret'.kind = "Datagram"
                        /\ ret'.d[1].origin = "conn") =>
              /\ last'.out.kind = "Datagram"
              /\ last'.c = ret'.d[1].c
       /\ pc = "done" =>
              /\ pc' = "idle"
              /\ UNCHANGED <<connections, waiting, timers, active, conn,
                             emitted, minted>>
      ]_vars

\* A connection emitted after another was ticked without emitting, and the
\* call returned while a timer was still due.
EmissionEndsCall ==
    /\ pc = "done" /\ last.out.kind = "Datagram"
    /\ last.c \in ticked /\ ticked # {last.c}
    /\ TimerDue(timers, now) # {}
    /\ ret = RetDatagram([origin |-> "conn", c |-> last.c])

\* C12: a call that returns without a datagram returns Output::None exactly
\* when the timer wheel is empty; otherwise every deadline in the wheel is
\* later than now and it returns Callback(D), D the earliest deadline minus now.
DormancyOutput ==
    (pc = "done" /\ ret.kind # "Datagram") =>
        /\ ret = RetNone <=> BagToSet(timers) = {}
        /\ BagToSet(timers) # {} =>
               /\ \A e \in BagToSet(timers) : e[1] > now
               /\ ret.kind = "Callback" /\ ret.delay > 0
               /\ \E e \in BagToSet(timers) :
                      /\ ret.delay = e[1] - now
                      /\ \A f \in BagToSet(timers) : e[1] <= f[1]

\* A call at a later instant drained a due timer and returned the time left
\* until the earliest of two deadlines.
CallbackUntilEarliest ==
    /\ pc = "done" /\ ret.kind = "Callback" /\ ret.delay = 1
    /\ now > 0 /\ ticked # {}
    /\ Cardinality(BagToSet(timers)) = 2

\* Connection c is in the waiting queue.
InWaiting(c) == \E i \in 1..Len(waiting) : waiting[i] = c

\* C13 as stated: when a call returns, a connection is in the waiting queue
\* if and only if its most recent process invocation returned Datagram.
WaitingIffEmitted ==
    pc = "done" =>
        \A c \in Conns : conn[c].exists => (InWaiting(c) <=> c \in emitted)

\* C13 as amended: when a call returns, every connection whose most recent
\* invocation returned Datagram is in the waiting queue, and the queue is
\* empty when the call returns Callback or None; a connection that did not
\* emit may be left in the queue only by a call that returns a datagram.
EmittedAreWaiting ==
    pc = "done" =>
        /\ \A c \in emitted : InWaiting(c)
        /\ ret.kind # "Datagram" => (waiting = <<>> /\ emitted = {})
        /\ (\E c \in Conns : InWaiting(c) /\ c \notin emitted) =>
               ret.kind = "Datagram"

\* A connection that was in the waiting queue got a datagram and answered
\* Callback or None; it is still in the queue when the call returns, another
\* connection having emitted during the drain.
QueuedAfterQuietInput ==
    /\ pc = "done" /\ reply = "routed" /\ Len(delivered) = 1
    /\ delivered[1].out.kind # "Datagram"
    /\ delivered[1].c \notin emitted
    /\ InWaiting(delivered[1].c)
    /\ last.c # delivered[1].c /\ last.c \in emitted /\ InWaiting(last.c)

\* The connections invoked so far in the current call.
Invoked == ticked \cup {delivered[i].c : i \in 1..Len(delivered)}

\* C14 as stated: a connection is in the active set if and only if it has
\* unconsumed events.
ActiveIffEvents ==
    \A c \in Conns : conn[c].exists => (c \in active <=> conn[c].has_events)

\* C14 as amended: a connection that has events after an invocation of its
\* process is in the active set until active_connections is called; a
\* connection enters the set only having events, and leaves it only when
\* active_connections empties the set, whatever events are still unread.
ActiveSinceDrain ==
    [][/\ pc' # "idle" =>
              \A c \in Invoked' : conn'[c].has_events => c \in active'
       /\ \A c \in active' \ active :
              c \in Invoked' /\ conn'[c].has_events
       /\ ~(active \subseteq active') =>
              /\ active' = {}
              /\ listed' = Append(listed, active)
              /\ conn' = conn
      ]_vars

\* active_connections has emptied the set and the application has not read
\* the events of a connection it was handed.
DrainedUnread ==
    /\ pc = "idle" /\ Len(listed) = 1 /\ active = {}
    /\ \E c \in listed[1] : conn[c].has_events

\* C15: between two active_connections calls the active set only grows; a
\* call returns the whole set and leaves it empty, so a call that follows
\* another with no process call in between returns the empty list.
ActiveDrain ==
    [][/\ (listed' # listed /\ listed' # <<>>) =>
              /\ listed' = Append(listed, active)
              /\ active' = {}
              /\ Len(listed') >= 2 => listed'[Len(listed')] = {}
       /\ (listed' = listed \/ listed' = <<>>) => active \subseteq active'
      ]_vars

\* Two calls in a row: the first returned connections, the second none.
ReturnedThenEmpty ==
    /\ Len(listed) = 2 /\ Cardinality(listed[1]) = 2 /\ listed[2] = {}
    /\ active = {}

\* An entering datagram whose DCID was minted by connection c, now Closed.
EntryForClosed(c) ==
    /\ EntryWith
    /\ conn[c].exists /\ conn[c].closed
    /\ input'[1].dcid \in minted[c]

\* C16 as stated: a datagram for a CID of a Closed connection is dropped: it
\* is delivered to no connection, creates no connection, elicits no reply.
ClosedCidsDropped ==
    [][\A c \in Conns :
           EntryForClosed(c) =>
               /\ delivered' = <<>>
               /\ numConns' = numConns
               /\ ret'.kind # "Datagram"
      ]_vars

\* C16 as amended: the CIDs of a Closed connection are unknown to the
\* registry; a datagram for one of them is never given to that connection; a
\* Short-header or undersized one is dropped, changing nothing; any other is
\* handled as a datagram with an unknown DCID, and the only connection it may
\* be given to is a new one created from a full-size Initial.
ClosedCidsUnknown ==
    [][\A c \in Conns :
           EntryForClosed(c) =>
               /\ Hit = NoConn
               /\ \A i \in 1..Len(delivered') : delivered'[i].c # c
               /\ (input'[1].tipe = "Short"
                     \/ input'[1].len < MIN_INITIAL_PACKET_SIZE) =>
                      /\ pc' = "output" /\ delivered' = <<>>
                      /\ UNCHANGED <<connections, conn, numConns, nextCid,
                                     waiting, timers, active>>
               /\ delivered' # <<>> =>
                      /\ EntryInitial
                      /\ numConns' = numConns + 1
                      /\ delivered' = <<[c |-> numConns',
                                         out |-> delivered'[1].out]>>
               /\ ret'.kind = "Datagram" =>
                      \/ ret'.d[1].origin \in {"vn", "retry"}
                      \/ ret'.d[1] = [origin |-> "conn", c |-> numConns + 1]
      ]_vars

\* A connection was created from an Initial whose DCID is a CID of a Closed
\* connection.
NewConnectionOnClosedCid ==
    \E c \in Conns :
        /\ conn[c].closed /\ input # None /\ input[1].dcid \in minted[c]
        /\ reply = "accept" /\ Len(delivered) = 1
        /\ delivered[1].c # c

\* C17 as stated: a connection that is Closed is not invoked again.
ClosedNeverInvoked ==
    [][\A c \in Conns :
           (conn[c].exists /\ conn[c].closed /\ c \notin ticked) =>
               /\ c \notin ticked'
               /\ delivered' # delivered =>
                      \A i \in 1..Len(delivered') : delivered'[i].c # c
      ]_vars

\* C17 as amended: a Closed connection is never given a datagram again, and
\* it is ticked only through a reference left in the waiting queue or the
\* timer wheel; such a reference is not skipped: the drain of the waiting
\* queue ticks the connection at its head, and the drain of the wheel the
\* connection whose entry is due, Closed or not.
ClosedStillTicked ==
    [][\A c \in Conns :
           (conn[c].exists /\ conn[c].closed) =>
               /\ delivered' # delivered =>
                      \A i \in 1..Len(delivered') : delivered'[i].c # c
               /\ c \in ticked' \ ticked =>
                      (InWaiting(c) \/ TimerEntries(timers, c) # {})
               /\ (pc = "output" /\ waiting # <<>> /\ Head(waiting) = c) =>
                      c \in ticked'
               /\ (pc = "output" /\ waiting = <<>>
                      /\ TimerDue(timers, now) # {}
                      /\ \A e \in TimerDue(timers, now) : e[2] = c) =>
                      c \in ticked'
      ]_vars

\* A Short-header datagram for a CID of a Closed connection was dropped, and
\* the same call then ticked that connection.
PurgedConnectionTicked ==
    \E c \in Conns :
        /\ conn[c].closed /\ input # None /\ input[1].dcid \in minted[c]
        /\ reply = "short" /\ delivered = <<>>
        /\ c \in ticked

\* C18: an Initial that reaches handle_initial with a token that is not empty
\* and does not start with the prefix [1, 2, 3] is found Invalid and dropped:
\* the call goes on, nothing was created or changed.
InvalidTokenDropped ==
    [][(/\ EntryInitial
        /\ input'[1].token # <<>>
        /\ ~(/\ Len(input'[1].token) >= 3
              /\ SubSeq(input'[1].token, 1, 3) = <<1, 2, 3>>)) =>
           /\ reply' = "invalid"
           /\ pc' = "output"
           /\ delivered' = <<>>
           /\ UNCHANGED <<connections, conn, numConns, nextCid, waiting,
                          timers, active>>
      ]_vars

\* C19: the token generated for a CID is the bytes 1, 2, 3 followed by the
\* CID, and validate of an Initial carrying it is Valid with that same CID,
\* under either Retry policy.
TokenRoundTrip ==
    /\ tok.stage \in {"generated", "validated"} =>
           tok.token = <<1, 2, 3>> \o tok.cid
    /\ tok.stage = "validated" =>
           (tok.r = "Valid" /\ tok.out = tok.cid)

\* A CID that is itself the three prefix bytes came back from its token, the
\* server not requiring Retry.
PrefixCidRestored ==
    /\ tok.stage = "validated" /\ ~tok.rr
    /\ tok.cid = <<1, 2, 3>> /\ tok.token = <<1, 2, 3, 1, 2, 3>>
    /\ tok.r = "Valid" /\ tok.out = <<1, 2, 3>>

\* C20: for a DCID not in the registry, a Short-header datagram and a
\* Handshake, 0-RTT, Retry or Version-Negotiation header of the server's
\* version are dropped: no reply, nothing delivered, nothing created or
\* changed; a connection is created only by a call whose datagram is an
\* Initial.
OnlyInitialCreates ==
    [][/\ (/\ EntryUnknown
            /\ \/ input'[1].tipe = "Short"
               \/ /\ input'[1].tipe \in {"Handshake", "ZeroRTT", "Retry", "VN"}
                  /\ input'[1].version = Some(QUIC_VERSION)) =>
               /\ pc' = "output"
               /\ ret'.kind # "Datagram"
               /\ delivered' = <<>>
               /\ UNCHANGED <<connections, conn, numConns, nextCid, waiting,
                              timers, active, retried>>
       /\ numConns' # numConns =>
               /\ EntryWith
               /\ input'[1].tipe = "Initial"
      ]_vars

\* A full-size Handshake datagram of the server's version for an unknown
\* DCID was found Invalid and dropped by a server that has a connection.
HandshakeDropped ==
    /\ pc = "output" /\ reply = "invalid" /\ input # None
    /\ input[1].tipe = "Handshake"
    /\ input[1].version = Some(QUIC_VERSION)
    /\ input[1].len >= MIN_INITIAL_PACKET_SIZE
    /\ numConns >= 1

\* C21: while the waiting queue is not empty, the next connection ticked is
\* the one at its front, without input; it is taken off the queue and, when
\* it emits, put at the back, which ends the call; the timer entries of the
\* other connections stay as they are, so an entry of the wheel is processed
\* only once the queue has been emptied without a datagram.
WaitingDrainedFirst ==
    [][(pc = "output" /\ waiting # <<>>) =>
           LET c == Head(waiting) IN
           /\ last'.c = c /\ c \in ticked'
           /\ delivered' = delivered
           /\ waiting' = IF last'.out.kind = "Datagram"
                          THEN Append(Tail(waiting), c) ELSE Tail(waiting)
           /\ last'.out.kind = "Datagram" =>
                  (pc' = "done" /\ ret' = RetDatagram([origin |-> "conn",
                                                       c |-> c]))
           /\ last'.out.kind # "Datagram" => pc' = "output"
           /\ \A e \in BagToSet(timers) \cup BagToSet(timers') :
                  e[2] # c => CopiesIn(e, timers') = CopiesIn(e, timers)
      ]_vars

\* The connection at the front of a queue of two emitted and was put behind
\* the other one; the call returned with a timer still due.
EmitterRequeuedBehind ==
    /\ pc = "done" /\ input = None
    /\ ticked = {last.c} /\ last.out.kind = "Datagram"
    /\ Len(waiting) = 2 /\ waiting[2] = last.c /\ waiting[1] # last.c
    /\ TimerDue(timers, now) # {}

\* C22: a call that returns Callback or None leaves the waiting queue empty,
\* and the Callback it returns is never 0; between calls the queue does not
\* change, so it is non-empty only after a call that returned a datagram.
WaitingEmptyAtRest ==
    [][/\ pc' = "done" => (ret'.kind = "Datagram" \/ waiting' = <<>>)
       /\ (pc' = "done" /\ ret'.kind = "Callback") => ret'.delay # 0
       /\ (pc = "done" \/ pc' = "idle") => waiting' = waiting
      ]_vars

\* A call returned Callback with the queue empty after it had ticked, from
\* the queue, a connection that answered None: that connection's last_timer
\* is later than now, so it was not taken from the wheel.
QueueDrainedToCallback ==
    /\ pc = "done" /\ ret.kind = "Callback" /\ waiting = <<>>
    /\ \E c \in ticked :
           /\ conn[c].last_timer > now
           /\ TimerEntries(timers, c) = {}

\* C23: a call that has entered process_next_output reaches its return,
\* whatever the connections answer, Callback(0) every time included.
CallTerminates == (pc = "output") ~> (pc = "done")

\* A connection ticked in this call answered Callback(0) and its timer is due
\* again in the same call.
DueAgainInSameCall ==
    /\ pc = "output"
    /\ last.c \in ticked /\ last.out = OutCallback(0)
    /\ \E e \in TimerDue(timers, now) : e[2] = last.c
====
